---- MODULE Spec2Model ----
(***************************************************************************)
(* Model of src/src/context/AppContext.tsx: the application store          *)
(* (appReducer over AppState) and the session synchronizer of AppProvider  *)
(* (the onAuthStateChange handler and the getSession() lookup).            *)
(*                                                                         *)
(* JavaScript runs each handler to its next await without interruption,    *)
(* so every action below is one such run: from an event or a resumed       *)
(* await up to the next await or the end of the handler.                   *)
(***************************************************************************)
EXTENDS Integers, Sequences, FiniteSets, TLC

VARIABLES
    state,      \* the AppState snapshot held by useReducer
    last,       \* history: the action most recently dispatched
    res,        \* the SIGNED_IN resolutions, in order of their events
    mount,      \* the getSession() path of the effect
    lastEvent   \* history: the auth event most recently delivered

vars == <<state, last, res, mount, lastEvent>>

-----------------------------------------------------------------------------
(* Bounds of the model *)

\* ADD_LISTING is offered while active and past hold fewer listings than this
MaxListings == 2
\* ADD_NOTIFICATION is offered while the list is shorter than this
MaxNotifications == 2
\* handlers that are started in one run: the SIGNED_IN events with a session
\* that are delivered, and the getSession() callback once it has been called
MaxSignIns == 2

-----------------------------------------------------------------------------
(* Values *)

\* JavaScript null / undefined
Null == [null |-> TRUE]

\* a || b on strings; "" stands for every falsy string value ('', null, undefined)
OrElse(a, b) == IF a = "" THEN b ELSE a

\* the listing and notification ids the components use
Ids == {1, 2}

\* FoodListing: the id, the expiry descriptor and one more field (title)
Titles == {"bread", "rice"}
NewListings == [id : Ids, title : Titles, expiresIn : {"2 hours"}]

\* Notification: the id and one payload field
Notifications == [id : Ids, message : {"claimed"}]

\* the ids of a sequence of listings or notifications
IdsOf(seq) == {seq[i].id : i \in 1..Len(seq)}

\* Array.prototype.filter(x => x.id !== id)
RECURSIVE FilterOutId(_, _)
FilterOutId(seq, id) ==
    IF seq = <<>> THEN <<>>
    ELSE IF Head(seq).id # id
         THEN <<Head(seq)>> \o FilterOutId(Tail(seq), id)
         ELSE FilterOutId(Tail(seq), id)

\* Array.prototype.find(x => x.id === id): the first match, or undefined
RECURSIVE FindById(_, _)
FindById(seq, id) ==
    IF seq = <<>> THEN Null
    ELSE IF Head(seq).id = id THEN Head(seq)
    ELSE FindById(Tail(seq), id)

\* { ...a, ...p }: the fields of p overwrite those of a
Spread(a, p) ==
    [k \in DOMAIN a \cup DOMAIN p |-> IF k \in DOMAIN p THEN p[k] ELSE a[k]]

initialAnalytics ==
    [totalDonations |-> 0,
     mealsServed |-> 0,
     co2Saved |-> 0,
     categoryBreakdown |-> {},
     recentActivity |-> [donations |-> <<>>, dates |-> <<>>],
     environmentalStats |-> [waterSaved |-> 0, energySaved |-> 0, wasteDiverted |-> 0]]

initialState ==
    [user |-> Null,
     listings |-> [active |-> <<>>, past |-> <<>>],
     analytics |-> initialAnalytics,
     notifications |-> <<>>]

-----------------------------------------------------------------------------
(* appReducer, one operator per case *)

ReduceSetUser(s, payload) == [s EXCEPT !.user = payload]

ReduceAddListing(s, payload) ==
    [s EXCEPT !.listings.active = Append(@, payload)]

ReduceDeleteListing(s, payload) ==
    [s EXCEPT !.listings.active = FilterOutId(@, payload)]

\* MARK_AS_CLAIMED without its `if (!listing) return state`: the spread of
\* undefined is the empty object, so a bare { expiresIn: 'Claimed' } is prepended
ReduceMarkAsClaimedNoGuard(s, payload) ==
    LET listing == FindById(s.listings.active, payload)
    IN  [s EXCEPT !.listings =
            [active |-> FilterOutId(s.listings.active, payload),
             past |-> <<IF listing = Null THEN [expiresIn |-> "Claimed"]
                        ELSE [listing EXCEPT !.expiresIn = "Claimed"]>>
                          \o s.listings.past]]

ReduceMarkAsClaimed(s, payload) ==
    LET listing == FindById(s.listings.active, payload)
    IN  IF listing = Null THEN s
        ELSE [s EXCEPT !.listings =
                [active |-> FilterOutId(s.listings.active, payload),
                 past |-> <<[listing EXCEPT !.expiresIn = "Claimed"]>>
                              \o s.listings.past]]

\* UPDATE_ANALYTICS written `analytics: action.payload`: the partial replaces
\* the analytics object instead of being merged into it
ReduceUpdateAnalyticsReplacing(s, payload) ==
    [s EXCEPT !.analytics = payload]

ReduceUpdateAnalytics(s, payload) ==
    [s EXCEPT !.analytics = Spread(@, payload)]

\* ADD_NOTIFICATION that also counts the notification on the signed-in user
ReduceAddNotificationCounting(s, payload) ==
    [s EXCEPT !.notifications = <<payload>> \o @,
              !.user = IF @ = Null THEN @
                       ELSE [@ EXCEPT !.notifications = @ + 1]]

ReduceAddNotification(s, payload) ==
    [s EXCEPT !.notifications = <<payload>> \o @]

ReduceRemoveNotification(s, payload) ==
    [s EXCEPT !.notifications = FilterOutId(@, payload)]

ReduceClearAllNotifications(s) == [s EXCEPT !.notifications = <<>>]

appReducer(s, action) ==
    CASE action.type = "SET_USER" -> ReduceSetUser(s, action.payload)
      [] action.type = "ADD_LISTING" -> ReduceAddListing(s, action.payload)
      [] action.type = "DELETE_LISTING" -> ReduceDeleteListing(s, action.payload)
      [] action.type = "MARK_AS_CLAIMED" -> ReduceMarkAsClaimed(s, action.payload)
      [] action.type = "UPDATE_ANALYTICS" -> ReduceUpdateAnalytics(s, action.payload)
      [] action.type = "ADD_NOTIFICATION" -> ReduceAddNotification(s, action.payload)
      [] action.type = "REMOVE_NOTIFICATION" -> ReduceRemoveNotification(s, action.payload)
      [] action.type = "CLEAR_ALL_NOTIFICATIONS" -> ReduceClearAllNotifications(s)
      [] OTHER -> s

\* dispatch(action): the store's snapshot becomes appReducer(state, action)
dispatch(action) ==
    /\ state' = appReducer(state, action)
    /\ last' = action

-----------------------------------------------------------------------------
(* The components' dispatches (useApp().dispatch), one action per Action type *)

\* User objects a component may put in the store
UiUsers == {Null, [id |-> "u1", name |-> "Ann", role |-> "donor",
                   avatar |-> "ann.png", notifications |-> 0]}

\* Partial<AppState['analytics']> payloads; <<>> is the empty object {}
AnalyticsPartials ==
    {<<>>,
     [totalDonations |-> 5],
     [mealsServed |-> 3,
      environmentalStats |-> [waterSaved |-> 7, energySaved |-> 0, wasteDiverted |-> 0]]}

SyncUnchanged == UNCHANGED <<res, mount, lastEvent>>

DispatchSetUser ==
    \E u \in UiUsers :
        dispatch([type |-> "SET_USER", payload |-> u]) /\ SyncUnchanged

DispatchAddListing ==
    /\ Len(state.listings.active) + Len(state.listings.past) < MaxListings
    /\ \E l \in NewListings :
        dispatch([type |-> "ADD_LISTING", payload |-> l]) /\ SyncUnchanged

DispatchDeleteListing ==
    \E id \in Ids :
        dispatch([type |-> "DELETE_LISTING", payload |-> id]) /\ SyncUnchanged

DispatchMarkAsClaimed ==
    \E id \in Ids :
        dispatch([type |-> "MARK_AS_CLAIMED", payload |-> id]) /\ SyncUnchanged

DispatchUpdateAnalytics ==
    \E p \in AnalyticsPartials :
        dispatch([type |-> "UPDATE_ANALYTICS", payload |-> p]) /\ SyncUnchanged

DispatchAddNotification ==
    /\ Len(state.notifications) < MaxNotifications
    /\ \E n \in Notifications :
        dispatch([type |-> "ADD_NOTIFICATION", payload |-> n]) /\ SyncUnchanged

DispatchRemoveNotification ==
    \E id \in Ids :
        dispatch([type |-> "REMOVE_NOTIFICATION", payload |-> id]) /\ SyncUnchanged

DispatchClearAllNotifications ==
    dispatch([type |-> "CLEAR_ALL_NOTIFICATIONS"]) /\ SyncUnchanged

\* an action object of no declared type: the reducer's default case
DispatchUnrecognized ==
    dispatch([type |-> "RESET"]) /\ SyncUnchanged

-----------------------------------------------------------------------------
(* The session synchronizer: the backend as seen by AppProvider *)

\* sessions the auth service may hand over: one with full metadata, one
\* whose user_metadata has no full_name, role or avatar_url
Sessions ==
    {[user |-> [id |-> "u1",
                user_metadata |-> [full_name |-> "Ann Lee", role |-> "donor",
                                   avatar_url |-> "ann.png"]]],
     [user |-> [id |-> "u2",
                user_metadata |-> [full_name |-> "", role |-> "",
                                   avatar_url |-> ""]]]}

AuthEvents == {"SIGNED_IN", "SIGNED_OUT", "TOKEN_REFRESHED"}

\* the row of the profiles table a select by id may return
StoredProfile(id) ==
    IF id = "u1"
    THEN [id |-> id, full_name |-> "Ann L.", role |-> "admin", avatar_url |-> "db.png"]
    ELSE [id |-> id, full_name |-> "", role |-> "donor", avatar_url |-> ""]

\* the row the handler inserts when no profile was found
DefaultProfile(session) ==
    [id |-> session.user.id,
     full_name |-> OrElse(session.user.user_metadata.full_name, "User"),
     role |-> OrElse(session.user.user_metadata.role, "recipient"),
     avatar_url |-> session.user.user_metadata.avatar_url]

PostgrestError == [code |-> "PGRST116"]

\* what an awaited query may do: resolve to { data, error } with a row, with
\* an error, or with neither, or reject (thrown)
Responses(row) ==
    {[data |-> row, error |-> Null, thrown |-> FALSE],
     [data |-> Null, error |-> PostgrestError, thrown |-> FALSE],
     [data |-> Null, error |-> Null, thrown |-> FALSE],
     [data |-> Null, error |-> Null, thrown |-> TRUE]}

\* how a response settled: thrown, with a row, with an error, or with neither
Kind(resp) ==
    IF resp.thrown THEN "thrown"
    ELSE IF resp.data # Null THEN "row"
    ELSE IF resp.error # Null THEN "error"
    ELSE "none"

\* .from('profiles').select('*').eq('id', id).single()
SelectResponses(session) == Responses(StoredProfile(session.user.id))

\* .from('profiles').insert([row]).select().single(): the created row is the
\* row that was inserted
InsertResponses(session) == Responses(DefaultProfile(session))

\* `let retries = 3`
InitialRetries == 3

\* a User object whose name, role and avatar come from the session metadata
\* instead of the profile row
MakeUserFromMetadata(session, profile) ==
    [id |-> session.user.id,
     name |-> OrElse(session.user.user_metadata.full_name, "User"),
     role |-> session.user.user_metadata.role,
     avatar |-> session.user.user_metadata.avatar_url,
     notifications |-> 0]

\* the User object both paths build from the session and the profile row
MakeUser(session, profile) ==
    [id |-> session.user.id,
     name |-> OrElse(profile.full_name, "User"),
     role |-> profile.role,
     avatar |-> profile.avatar_url,
     notifications |-> 0]

-----------------------------------------------------------------------------
(* The onAuthStateChange handler *)

\* A resolution is one run of the SIGNED_IN branch. pc is the await it is
\* suspended at; retries, profile and error are its locals; fetches, noRow,
\* backoffs, inserts, resp, sent and outcome are history: the selects started,
\* the selects that gave no row, the 1000 ms delays and the inserts started,
\* how the last awaited call settled, the users dispatched and how it ended.
NewResolution(session) ==
    [session |-> session, pc |-> "settle",
     retries |-> 0, profile |-> Null, error |-> Null,
     fetches |-> 0, noRow |-> 0, backoffs |-> 0, inserts |-> 0,
     resp |-> "pending", sent |-> <<>>, outcome |-> "running"]

\* the getSession() path before the promise settles. lookup is how it
\* settled, session the session it gave; the other fields are as in a resolution.
NewMount ==
    [pc |-> "getSession", lookup |-> "pending", session |-> Null,
     fetches |-> 0, inserts |-> 0,
     resp |-> "pending", sent |-> <<>>, outcome |-> "running"]

\* the handlers started so far
Started == Len(res) + (IF mount.pc = "getSession" THEN 0 ELSE 1)

\* the resolution r replaces resolution i; the store is not touched
Suspend(i, r) ==
    /\ res' = [res EXCEPT ![i] = r]
    /\ UNCHANGED <<state, last>>

\* a dispatch that is dropped when a later SIGNED_IN event has arrived
DispatchUserIfLatest(i, r) ==
    IF i = Len(res)
    THEN LET user == MakeUser(r.session, r.profile)
         IN  /\ dispatch([type |-> "SET_USER", payload |-> user])
             /\ res' = [res EXCEPT ![i] =
                         [r EXCEPT !.pc = "done", !.outcome = "dispatched",
                                   !.sent = Append(@, user)]]
    ELSE /\ res' = [res EXCEPT ![i] = [r EXCEPT !.pc = "done", !.outcome = "silent"]]
         /\ UNCHANGED <<state, last>>

\* the SET_USER dispatch of lines 177-186, after which the handler returns
DispatchUser(i, r) ==
    LET user == MakeUser(r.session, r.profile)
    IN  /\ dispatch([type |-> "SET_USER", payload |-> user])
        /\ res' = [res EXCEPT ![i] =
                    [r EXCEPT !.pc = "done", !.outcome = "dispatched",
                              !.sent = Append(@, user)]]

\* `if (profile) dispatch(...)`, the end of the try block
Finish(i, r) ==
    IF r.profile # Null
    THEN DispatchUser(i, r)
    ELSE Suspend(i, [r EXCEPT !.pc = "done", !.outcome = "silent"])

\* a catch block that also clears the user
CaughtClearingUser(i, r) ==
    /\ dispatch([type |-> "SET_USER", payload |-> Null])
    /\ res' = [res EXCEPT ![i] = [r EXCEPT !.pc = "done", !.outcome = "logged"]]

\* the catch block: console.error, nothing else
Caught(i, r) == Suspend(i, [r EXCEPT !.pc = "done", !.outcome = "logged"])

\* the code after the while loop: `if (!profile && error)` starts the insert
AfterLoop(i, r) ==
    IF r.profile = Null /\ r.error # Null
    THEN Suspend(i, [r EXCEPT !.pc = "insert", !.inserts = @ + 1])
    ELSE Finish(i, r)

\* the loop test written `retries >= 0 && !profile`
LoopTestOffByOne(i, r) ==
    IF r.retries >= 0 /\ r.profile = Null
    THEN Suspend(i, [r EXCEPT !.pc = "fetch", !.fetches = @ + 1])
    ELSE AfterLoop(i, r)

\* the loop test `retries > 0 && !profile`; a true test starts a select
LoopTest(i, r) ==
    IF r.retries > 0 /\ r.profile = Null
    THEN Suspend(i, [r EXCEPT !.pc = "fetch", !.fetches = @ + 1])
    ELSE AfterLoop(i, r)

\* a SIGNED_IN branch that shows a provisional user, built from the session
\* metadata, before the profile is resolved
HandleSignedInOptimistic(session) ==
    /\ Started < MaxSignIns
    /\ res' = Append(res, NewResolution(session))
    /\ dispatch([type |-> "SET_USER",
                 payload |-> MakeUserFromMetadata(session, Null)])

\* event === 'SIGNED_IN' && session?.user: the handler runs to its first
\* await, the 500 ms timer
HandleSignedIn(session) ==
    /\ Started < MaxSignIns
    /\ res' = Append(res, NewResolution(session))
    /\ UNCHANGED <<state, last>>

\* the SIGNED_OUT branch with a cancellation of the resolutions in flight
HandleSignedOutCancelling ==
    /\ dispatch([type |-> "SET_USER", payload |-> Null])
    /\ res' = [i \in 1..Len(res) |->
                 IF res[i].pc = "done" THEN res[i]
                 ELSE [res[i] EXCEPT !.pc = "done", !.outcome = "silent"]]

\* the SIGNED_OUT branch skipped while a resolution is in flight
HandleSignedOutWhenIdle ==
    /\ IF \E i \in 1..Len(res) : res[i].pc # "done"
       THEN UNCHANGED <<state, last>>
       ELSE dispatch([type |-> "SET_USER", payload |-> Null])
    /\ UNCHANGED res

\* event === 'SIGNED_OUT'
HandleSignedOut ==
    /\ dispatch([type |-> "SET_USER", payload |-> Null])
    /\ UNCHANGED res

\* the callback given to supabase.auth.onAuthStateChange
onAuthStateChange(event, session) ==
    /\ lastEvent' = event
    /\ UNCHANGED mount
    /\ IF event = "SIGNED_IN" /\ session # Null
       THEN HandleSignedIn(session)
       ELSE IF event = "SIGNED_OUT"
            THEN HandleSignedOut
            ELSE UNCHANGED <<state, last, res>>

AuthEvent ==
    \E event \in AuthEvents, session \in Sessions \cup {Null} :
        onAuthStateChange(event, session)

\* the 500 ms timer fires: the locals are initialised and the loop entered
SettleDone(i) ==
    /\ res[i].pc = "settle"
    /\ LoopTest(i, [res[i] EXCEPT !.retries = InitialRetries,
                                  !.profile = Null, !.error = Null])
    /\ UNCHANGED <<mount, lastEvent>>

\* the awaited select settles
FetchReturns(i) ==
    /\ res[i].pc = "fetch"
    /\ \E resp \in SelectResponses(res[i].session) :
        LET r == [res[i] EXCEPT !.resp = Kind(resp)]
        IN  IF resp.thrown
            THEN Caught(i, r)
            ELSE IF resp.data # Null
            THEN AfterLoop(i, [r EXCEPT !.profile = resp.data])
            ELSE Suspend(i, [r EXCEPT !.error = resp.error,
                                      !.retries = @ - 1,
                                      !.noRow = @ + 1,
                                      !.backoffs = @ + 1,
                                      !.pc = "backoff"])
    /\ UNCHANGED <<mount, lastEvent>>

\* a backoff whose promise is never resolved: the handler stays suspended
BackoffDoneStuck(i) ==
    /\ res[i].pc = "backoff"
    /\ FALSE
    /\ UNCHANGED vars

\* the 1000 ms timer fires: back to the loop test
BackoffDone(i) ==
    /\ res[i].pc = "backoff"
    /\ LoopTest(i, res[i])
    /\ UNCHANGED <<mount, lastEvent>>

\* the awaited insert settles
InsertReturns(i) ==
    /\ res[i].pc = "insert"
    /\ \E resp \in InsertResponses(res[i].session) :
        LET r == [res[i] EXCEPT !.resp = Kind(resp)]
        IN  IF resp.thrown \/ resp.error # Null
            THEN Caught(i, r)
            ELSE Finish(i, [r EXCEPT !.profile = resp.data])
    /\ UNCHANGED <<mount, lastEvent>>

-----------------------------------------------------------------------------
(* The getSession() lookup of the effect *)

\* what getSession() may do: resolve with a session, resolve with none, or reject
SessionLookups ==
    [kind : {"session"}, session : Sessions]
        \cup {[kind |-> "none", session |-> Null],
              [kind |-> "thrown", session |-> Null]}

\* the promise of getSession() settles. A rejection finds no handler: the
\* chain is getSession().then(callback) with no catch. With no session the
\* callback does nothing; with one it starts the select inside its try block.
GetSessionReturns ==
    /\ mount.pc = "getSession"
    /\ Started < MaxSignIns
    /\ \E lookup \in SessionLookups :
        mount' = IF lookup.kind = "thrown"
                 THEN [mount EXCEPT !.lookup = "thrown", !.pc = "done",
                                    !.outcome = "unhandled"]
                 ELSE IF lookup.session = Null
                 THEN [mount EXCEPT !.lookup = "none", !.pc = "done",
                                    !.outcome = "noSession"]
                 ELSE [mount EXCEPT !.lookup = "session", !.pc = "fetch",
                                    !.session = lookup.session,
                                    !.fetches = @ + 1]
    /\ UNCHANGED <<state, last, res, lastEvent>>

\* the callback's select settles, with a missing row clearing the user
MountFetchReturnsClearing ==
    /\ mount.pc = "fetch"
    /\ \E resp \in SelectResponses(mount.session) :
        LET m == [mount EXCEPT !.resp = Kind(resp), !.pc = "done"]
        IN  IF resp.thrown \/ resp.error # Null
            THEN /\ mount' = [m EXCEPT !.outcome = "logged"]
                 /\ UNCHANGED <<state, last>>
            ELSE IF resp.data # Null
            THEN LET user == MakeUser(mount.session, resp.data)
                 IN  /\ dispatch([type |-> "SET_USER", payload |-> user])
                     /\ mount' = [m EXCEPT !.outcome = "dispatched",
                                           !.sent = Append(@, user)]
            ELSE /\ dispatch([type |-> "SET_USER", payload |-> Null])
                 /\ mount' = [m EXCEPT !.outcome = "silent"]
    /\ UNCHANGED <<res, lastEvent>>

\* the callback's select settles: an error is thrown to the catch block and
\* logged, a row is dispatched as the user, neither does nothing
MountFetchReturns ==
    /\ mount.pc = "fetch"
    /\ \E resp \in SelectResponses(mount.session) :
        LET m == [mount EXCEPT !.resp = Kind(resp), !.pc = "done"]
        IN  IF resp.thrown \/ resp.error # Null
            THEN /\ mount' = [m EXCEPT !.outcome = "logged"]
                 /\ UNCHANGED <<state, last>>
            ELSE IF resp.data # Null
            THEN LET user == MakeUser(mount.session, resp.data)
                 IN  /\ dispatch([type |-> "SET_USER", payload |-> user])
                     /\ mount' = [m EXCEPT !.outcome = "dispatched",
                                           !.sent = Append(@, user)]
            ELSE /\ mount' = [m EXCEPT !.outcome = "silent"]
                 /\ UNCHANGED <<state, last>>
    /\ UNCHANGED <<res, lastEvent>>

-----------------------------------------------------------------------------
(* Specifications *)

Init ==
    /\ state = initialState
    /\ last = [type |-> "@@INIT"]
    /\ res = <<>>
    /\ mount = NewMount
    /\ lastEvent = "NONE"

\* the store driven by the components
Next ==
    \/ DispatchSetUser
    \/ DispatchAddListing
    \/ DispatchDeleteListing
    \/ DispatchMarkAsClaimed
    \/ DispatchUpdateAnalytics
    \/ DispatchAddNotification
    \/ DispatchRemoveNotification
    \/ DispatchClearAllNotifications
    \/ DispatchUnrecognized

Spec == Init /\ [][Next]_vars

\* the synchronizer driven by the auth service, the timers and the backend
SyncNext ==
    \/ AuthEvent
    \/ \E i \in 1..Len(res) : SettleDone(i)
    \/ \E i \in 1..Len(res) : FetchReturns(i)
    \/ \E i \in 1..Len(res) : BackoffDone(i)
    \/ \E i \in 1..Len(res) : InsertReturns(i)

SyncSpec == Init /\ [][SyncNext]_vars

\* the whole effect: the auth subscription and the getSession() lookup
MountNext ==
    \/ SyncNext
    \/ GetSessionReturns
    \/ MountFetchReturns

MountSpec == Init /\ [][MountNext]_vars

\* the continuations of resolution i: its timers and its remote calls
Continue(i) ==
    /\ i <= Len(res)
    /\ (SettleDone(i) \/ FetchReturns(i) \/ BackoffDone(i) \/ InsertReturns(i))

\* SyncSpec when every timer fires and every remote call settles
FairSyncSpec ==
    SyncSpec /\ \A i \in 1..MaxSignIns : WF_vars(Continue(i))

-----------------------------------------------------------------------------
(* Properties of the store *)

MarkAsClaimed(id) == [type |-> "MARK_AS_CLAIMED", payload |-> id]
DeleteListing(id) == [type |-> "DELETE_LISTING", payload |-> id]
AddNotification(n) == [type |-> "ADD_NOTIFICATION", payload |-> n]
RemoveNotification(id) == [type |-> "REMOVE_NOTIFICATION", payload |-> id]

\* the snapshot after dispatching the actions of seq in order
RECURSIVE ApplyAll(_, _)
ApplyAll(s, seq) ==
    IF seq = <<>> THEN s ELSE ApplyAll(appReducer(s, Head(seq)), Tail(seq))

\* C1: from every reachable snapshot and for every id in its active list,
\* MARK_AS_CLAIMED(id) gives a snapshot whose active list no longer contains
\* id, whose past has at its head the claimed listing with expiresIn =
\* "Claimed", whose active is shorter by exactly 1 and past longer by exactly 1.
C1_ClaimMovesOneListing ==
    \A id \in IdsOf(state.listings.active) :
        LET claimed == FindById(state.listings.active, id)
            after == appReducer(state, MarkAsClaimed(id))
        IN  /\ id \notin IdsOf(after.listings.active)
            /\ after.listings.past # <<>>
            /\ Head(after.listings.past) = [claimed EXCEPT !.expiresIn = "Claimed"]
            /\ Len(after.listings.active) = Len(state.listings.active) - 1
            /\ Len(after.listings.past) = Len(state.listings.past) + 1

\* C2: in every reachable snapshot no listing id occurs twice in active,
\* twice in past, or in both.
C2_ListingIdsUnique ==
    LET all == state.listings.active \o state.listings.past
    IN  \A i, j \in 1..Len(all) : all[i].id = all[j].id => i = j

\* ids probed by the no-op properties: the ids in use and one never added
ProbeIds == Ids \cup {99}

\* C5: from every reachable snapshot, DELETE_LISTING(id) and
\* MARK_AS_CLAIMED(id) with an id that is not in active, and every sequence of
\* two such dispatches, give back the whole snapshot unchanged.
C5_AbsentIdIsNoOp ==
    LET absent == ProbeIds \ IdsOf(state.listings.active)
        acts == {DeleteListing(id) : id \in absent}
                    \cup {MarkAsClaimed(id) : id \in absent}
    IN  \A a, b \in acts :
            /\ appReducer(state, a) = state
            /\ ApplyAll(state, <<a, b>>) = state

\* C5 witness: MARK_AS_CLAIMED(id) was dispatched with an id that was not
\* active (it is not in past now, where a claimed listing would have gone),
\* while other listings are active, claimed and notified.
C5_Witness ==
    /\ last.type = "MARK_AS_CLAIMED"
    /\ last.payload \notin IdsOf(state.listings.active)
    /\ last.payload \notin IdsOf(state.listings.past)
    /\ state.listings.active # <<>>
    /\ state.listings.past # <<>>
    /\ state.notifications # <<>>

\* C6: from every reachable snapshot and for every notification n,
\* ADD_NOTIFICATION(n) followed by REMOVE_NOTIFICATION(n.id) gives back the
\* notifications list the snapshot had.
C6_AddRemoveRoundTrip ==
    \A n \in Notifications :
        ApplyAll(state, <<AddNotification(n), RemoveNotification(n.id)>>).notifications
            = state.notifications

\* C13: a listing id that is in past is never in active (past never loses
\* a listing, so an id that was once in past is in past in every later
\* state), and no id is moved to past twice.
C13_ClaimedNeverActiveAgain ==
    /\ IdsOf(state.listings.past) \cap IdsOf(state.listings.active) = {}
    /\ \A i, j \in 1..Len(state.listings.past) :
           state.listings.past[i].id = state.listings.past[j].id => i = j

\* C14: in every reachable snapshot no notification id occurs twice in the
\* notifications list.
C14_NotificationIdsUnique ==
    \A i, j \in 1..Len(state.notifications) :
        state.notifications[i].id = state.notifications[j].id => i = j

UpdateAnalytics(p) == [type |-> "UPDATE_ANALYTICS", payload |-> p]

\* C15: from every reachable snapshot, UPDATE_ANALYTICS(p) gives an analytics
\* object with the same top-level fields, in which the fields p names have
\* p's values (a nested object as a whole) and every other field its previous
\* value; with the empty partial the analytics object is unchanged.
C15_AnalyticsShallowMerge ==
    \A p \in AnalyticsPartials :
        LET before == state.analytics
            after == appReducer(state, UpdateAnalytics(p)).analytics
        IN  /\ DOMAIN after = DOMAIN initialAnalytics
            /\ \A k \in DOMAIN initialAnalytics :
                   after[k] = IF k \in DOMAIN p THEN p[k] ELSE before[k]
            /\ DOMAIN p = {} => after = before

\* C15 witness: an update of totalDonations alone has been dispatched on
\* analytics that an earlier update had changed: both updates show.
C15_Witness ==
    /\ last.type = "UPDATE_ANALYTICS"
    /\ DOMAIN last.payload = {"totalDonations"}
    /\ state.analytics.totalDonations = 5
    /\ state.analytics.mealsServed = 3
    /\ state.analytics.environmentalStats.waterSaved = 7
    /\ state.analytics.co2Saved = 0

\* C19: from every reachable snapshot each action changes only its part:
\* SET_USER only user; ADD_LISTING and DELETE_LISTING only listings.active;
\* MARK_AS_CLAIMED only listings; UPDATE_ANALYTICS only analytics; the three
\* notification actions only notifications (the user, and so its
\* notifications count, stays); an unrecognized action nothing.
C19_ActionsChangeOnlyTheirPart ==
    LET after(a) == appReducer(state, a)
        keeps(a, fields) == \A f \in fields : after(a)[f] = state[f]
    IN  /\ \A u \in UiUsers :
               keeps([type |-> "SET_USER", payload |-> u],
                     {"listings", "analytics", "notifications"})
        /\ \A l \in NewListings :
               LET a == [type |-> "ADD_LISTING", payload |-> l]
               IN  /\ keeps(a, {"user", "analytics", "notifications"})
                   /\ after(a).listings.past = state.listings.past
        /\ \A id \in ProbeIds :
               /\ keeps(DeleteListing(id), {"user", "analytics", "notifications"})
               /\ after(DeleteListing(id)).listings.past = state.listings.past
               /\ keeps(MarkAsClaimed(id), {"user", "analytics", "notifications"})
               /\ keeps(RemoveNotification(id), {"user", "listings", "analytics"})
        /\ \A p \in AnalyticsPartials :
               keeps(UpdateAnalytics(p), {"user", "listings", "notifications"})
        /\ \A n \in Notifications :
               keeps(AddNotification(n), {"user", "listings", "analytics"})
        /\ keeps([type |-> "CLEAR_ALL_NOTIFICATIONS"], {"user", "listings", "analytics"})
        /\ after([type |-> "RESET"]) = state

\* C19 witness: a notification was added for a signed-in user whose
\* notifications count is still 0 while the list holds two, with a listing
\* claimed and the analytics updated before.
C19_Witness ==
    /\ last.type = "ADD_NOTIFICATION"
    /\ state.user # Null
    /\ state.user.notifications = 0
    /\ Len(state.notifications) = 2
    /\ state.listings.past # <<>>
    /\ state.analytics.totalDonations = 5

-----------------------------------------------------------------------------
(* Properties of the session synchronizer *)

SetUser(u) == [type |-> "SET_USER", payload |-> u]

\* a step that delivers a SIGNED_OUT event after some other event
SignedOutDelivered ==
    lastEvent # "SIGNED_OUT" /\ lastEvent' = "SIGNED_OUT"

\* a step of the SIGNED_OUT handler, first or repeated: the last event is
\* SIGNED_OUT and no suspended continuation has moved
SignedOutHandled ==
    lastEvent' = "SIGNED_OUT" /\ res' = res /\ mount' = mount

\* C3: a SIGNED_OUT event cancels nothing: every resolution in flight is
\* left suspended exactly where it was, so it can still dispatch afterwards.
C3_SignOutCancelsNothing ==
    [][SignedOutDelivered => res' = res]_vars

\* C3 witness: the last auth event is SIGNED_OUT (which set the user to
\* null), yet the store holds the user that a resolution started before it
\* dispatched after it.
C3_Witness ==
    /\ lastEvent = "SIGNED_OUT"
    /\ state.user # Null
    /\ last = SetUser(state.user)
    /\ \E i \in 1..Len(res) :
        /\ res[i].pc = "done"
        /\ res[i].sent = <<state.user>>

\* C4: a resolution whose three selects all gave no row and whose insert
\* then gave the created row has made 3 selects and dispatched exactly one
\* SET_USER, with the session's id and the created row's name, role and avatar.
C4_CreatedProfileDispatchedOnce ==
    \A i \in 1..Len(res) :
        LET r == res[i]
        IN  (r.noRow = 3 /\ r.inserts = 1 /\ r.resp = "row") =>
                /\ r.pc = "done"
                /\ r.fetches >= 3
                /\ r.profile = DefaultProfile(r.session)
                /\ r.sent = <<[id |-> r.session.user.id,
                               name |-> r.profile.full_name,
                               role |-> r.profile.role,
                               avatar |-> r.profile.avatar_url,
                               notifications |-> 0]>>

\* C4 witness: such a resolution for the session without metadata, whose
\* created row carries the defaults, and the store holds its user.
C4_Witness ==
    \E i \in 1..Len(res) :
        /\ res[i].noRow = 3 /\ res[i].inserts = 1 /\ res[i].resp = "row"
        /\ res[i].session.user.id = "u2"
        /\ Len(res[i].sent) = 1
        /\ state.user = res[i].sent[1]
        /\ state.user.name = "User" /\ state.user.role = "recipient"

\* resolution i ends in this step because a remote call failed: an awaited
\* call threw, or the insert came back with an error
FailsNow(i) ==
    /\ res[i].pc # "done"
    /\ res'[i].pc = "done"
    /\ \/ res'[i].resp = "thrown"
       \/ res[i].pc = "insert" /\ res'[i].resp = "error"

\* C7: the step in which a resolution fails dispatches nothing and leaves
\* the snapshot as it was, and the failed resolution has dispatched nothing.
C7_FailureLeavesStateUnchanged ==
    [][\A i \in 1..Len(res) :
          FailsNow(i) => /\ state' = state
                         /\ last' = last
                         /\ res'[i].sent = <<>>
                         /\ res'[i].outcome = "logged"]_vars

\* C7 witness: a resolution has failed on its insert after three selects
\* without a row, while the store holds a user set by another resolution.
C7_Witness ==
    \E i, j \in 1..Len(res) :
        /\ res[i].pc = "done" /\ res[i].inserts = 1 /\ res[i].resp = "error"
        /\ res[i].sent = <<>>
        /\ res[j].sent # <<>>
        /\ state.user = res[j].sent[1]

\* C8: a resolution never starts a fourth select, a select is outstanding
\* only while every earlier one gave no row, and once a select has given a
\* row (or thrown) no further select is started.
C8_AtMostThreeFetches ==
    \A i \in 1..Len(res) :
        LET r == res[i]
        IN  /\ r.fetches <= 3
            /\ r.pc = "fetch" => (r.noRow = r.fetches - 1 /\ r.profile = Null)
            /\ r.pc # "fetch" => r.noRow \in {r.fetches - 1, r.fetches}
            /\ (r.pc # "fetch" /\ r.noRow = r.fetches - 1) => r.pc = "done"

\* C8 witness: a resolution whose third select gave the row: three selects,
\* two without a row, no insert, the user dispatched.
C8_Witness ==
    \E i \in 1..Len(res) :
        /\ res[i].pc = "done" /\ res[i].fetches = 3 /\ res[i].noRow = 2
        /\ res[i].resp = "row" /\ res[i].inserts = 0
        /\ Len(res[i].sent) = 1

\* C9: a resolution whose three selects all ended without a row makes
\* exactly one insert of the default profile (once its last delay is over)
\* and dispatches the created row's user when the insert gives it; a
\* resolution one of whose selects gave a row makes no insert.
C9_InsertAfterThreeMisses ==
    \A i \in 1..Len(res) :
        LET r == res[i]
        IN  /\ (r.noRow = 3 /\ r.pc # "backoff") => r.inserts = 1
            /\ r.noRow < r.fetches => r.inserts = 0
            /\ (r.inserts = 1 /\ r.resp = "row") =>
                   r.sent = <<MakeUser(r.session, DefaultProfile(r.session))>>

\* C10: the step that handles a SIGNED_OUT event dispatches SET_USER(null)
\* at once: after it the store's user is null, whatever it was before and
\* whatever resolutions are in flight, and no remote call or timer was started.
C10_SignOutClearsUser ==
    [][SignedOutHandled => /\ state'.user = Null
                           /\ last' = SetUser(Null)
                           /\ state' = [state EXCEPT !.user = Null]]_vars

\* C10 witness: the user is null right after a SIGNED_OUT event that found
\* a user in the store (one resolution had dispatched) and another
\* resolution still in flight.
C10_Witness ==
    /\ lastEvent = "SIGNED_OUT"
    /\ state.user = Null
    /\ last = SetUser(Null)
    /\ \E i, j \in 1..Len(res) :
        /\ res[i].sent # <<>>
        /\ res[j].pc \notin {"done", "settle"}

\* C16: a resolution changes the store in one step only, its last: the
\* step of the SIGNED_IN handler and every continuation that does not
\* dispatch leave the snapshot as it was; the dispatching step is the
\* resolution's first dispatch, ends it, comes after a profile was obtained
\* and is a SET_USER that replaces the user alone.
C16_OnlyTheFinalSetUser ==
    [][/\ Len(res') > Len(res) => (state' = state /\ last' = last)
       /\ \A i \in 1..Len(res) :
             res'[i] # res[i] =>
                IF res'[i].sent # res[i].sent
                THEN /\ res[i].sent = <<>>
                     /\ Len(res'[i].sent) = 1
                     /\ res'[i].pc = "done"
                     /\ res'[i].profile # Null
                     /\ last' = SetUser(res'[i].sent[1])
                     /\ state' = [state EXCEPT !.user = res'[i].sent[1]]
                ELSE state' = state /\ last' = last]_vars

\* C16 witness: a resolution is waiting for its insert, after three selects,
\* while the store still holds the user an earlier resolution dispatched.
C16_Witness ==
    \E i, j \in 1..Len(res) :
        /\ res[i].pc = "insert" /\ res[i].fetches = 3 /\ res[i].sent = <<>>
        /\ res[j].pc = "done" /\ Len(res[j].sent) = 1
        /\ state.user = res[j].sent[1]
        /\ res[i].session.user.id # res[j].session.user.id

\* C17: a resolution that has left its loop after k selects has made
\* exactly k - 1 backoff delays: none after its last select.
C17_BackoffOnlyBetweenFetches ==
    \A i \in 1..Len(res) :
        (res[i].pc \in {"insert", "done"} /\ res[i].fetches >= 1) =>
            res[i].backoffs = res[i].fetches - 1

\* C18: when every timer fires and every remote call settles, every
\* resolution that was started ends: from some point on it is ended for
\* good, and an ended resolution never runs again. No resolution makes more
\* than 3 selects or more than 1 insert, and one that has ended has
\* dispatched one SET_USER or nothing.
C18_ResolutionTerminates ==
    /\ \A i \in 1..MaxSignIns : <>[](Len(res) < i \/ res[i].pc = "done")
    /\ [][\A i \in 1..Len(res) :
              res[i].pc = "done" => Len(res') >= i /\ res'[i] = res[i]]_vars
    /\ [](\A i \in 1..Len(res) :
             /\ res[i].fetches <= 3
             /\ res[i].inserts <= 1
             /\ res[i].pc = "done" =>
                   \/ res[i].outcome = "dispatched" /\ Len(res[i].sent) = 1
                   \/ res[i].outcome \in {"logged", "silent"} /\ res[i].sent = <<>>)

\* C18 witness: two resolutions have ended, one after 3 selects and an
\* insert with one SET_USER, the other after 3 selects with none.
C18_Witness ==
    /\ Len(res) = 2
    /\ \A i \in 1..2 : res[i].pc = "done" /\ res[i].fetches = 3
    /\ \E i, j \in 1..2 :
        /\ res[i].inserts = 1 /\ Len(res[i].sent) = 1
        /\ res[j].sent = <<>>

-----------------------------------------------------------------------------
(* Properties of the getSession() lookup and of the whole effect *)

\* C11: every step of the getSession() path keeps to this: no insert ever;
\* no select unless a session was found, and then exactly one; on a row one
\* SET_USER of that row's user, which replaces the user alone; on an error,
\* a missing row, a throw or no session no dispatch and the snapshot unchanged.
C11_MountFetchesOnceNeverInserts ==
    [][mount' # mount =>
         /\ mount'.inserts = 0
         /\ mount'.fetches = (IF mount'.lookup = "session" THEN 1 ELSE 0)
         /\ IF mount'.resp = "row"
            THEN LET user == MakeUser(mount.session,
                                      StoredProfile(mount.session.user.id))
                 IN  /\ mount'.sent = <<user>>
                     /\ last' = SetUser(user)
                     /\ state' = [state EXCEPT !.user = user]
            ELSE /\ mount'.sent = <<>>
                 /\ state' = state
                 /\ last' = last]_vars

\* C11 witness: the lookup found the session of u2, its one select gave no
\* row and no error, and the path ended without a dispatch while the store
\* holds the user a SIGNED_IN resolution dispatched.
C11_Witness ==
    /\ mount.pc = "done" /\ mount.lookup = "session"
    /\ mount.session.user.id = "u2"
    /\ mount.fetches = 1 /\ mount.resp = "none" /\ mount.sent = <<>>
    /\ state.user # Null
    /\ \E i \in 1..Len(res) : res[i].sent = <<state.user>>

\* C12: every failed remote call of the synchronizer (a select or an insert
\* of a resolution that throws, an insert that returns an error, the
\* lookup's select that throws or returns an error, a getSession() that
\* rejects) ends logged by a catch block, and none is left unhandled.
C12_EveryFailureCaughtAndLogged ==
    /\ \A i \in 1..Len(res) :
           (/\ res[i].pc = "done"
            /\ \/ res[i].resp = "thrown"
               \/ res[i].inserts = 1 /\ res[i].resp = "error")
               => res[i].outcome = "logged"
    /\ (mount.pc = "done" /\ mount.resp \in {"thrown", "error"})
           => mount.outcome = "logged"
    /\ mount.lookup = "thrown" => mount.outcome = "logged"
    /\ mount.outcome # "unhandled"

\* C20: nothing orders the dispatches of overlapping resolutions: the step
\* in which a resolution (or the getSession() path) ends with a profile sets
\* the store's user to that resolution's user, whatever SIGNED_IN events
\* have arrived after the one that started it.
C20_LastDispatchWins ==
    [][/\ \A i \in 1..Len(res) :
             (res[i].pc # "done" /\ res'[i].pc = "done" /\ res'[i].profile # Null)
                 => state'.user = MakeUser(res[i].session, res'[i].profile)
       /\ (mount.pc = "fetch" /\ mount'.resp = "row")
             => state'.user = MakeUser(mount.session,
                                       StoredProfile(mount.session.user.id))]_vars

\* C20 witness: SIGNED_IN for u1, then SIGNED_IN for u2; both resolutions
\* have ended with a dispatch and the store's user is u1's, not the user of
\* the most recent session event.
C20_Witness ==
    /\ Len(res) = 2
    /\ lastEvent = "SIGNED_IN"
    /\ res[1].session.user.id = "u1" /\ res[2].session.user.id = "u2"
    /\ res[1].pc = "done" /\ res[2].pc = "done"
    /\ Len(res[1].sent) = 1 /\ Len(res[2].sent) = 1
    /\ state.user = res[1].sent[1]
    /\ state.user.id = "u1"

\* the same race between the getSession() path and a later sign-in: the
\* lookup found u1's session, SIGNED_IN for u2 arrived and its resolution
\* dispatched, and the lookup's dispatch came last.
C20_MountRace ==
    /\ mount.pc = "done" /\ mount.lookup = "session"
    /\ mount.session.user.id = "u1" /\ Len(mount.sent) = 1
    /\ Len(res) = 1 /\ res[1].session.user.id = "u2"
    /\ res[1].pc = "done" /\ Len(res[1].sent) = 1
    /\ lastEvent = "SIGNED_IN"
    /\ state.user = mount.sent[1]

====
